---- MODULE Spec2Model ----
(***************************************************************************)
(* image-updater: a webhook that rewrites image tags in a kustomization    *)
(* file of a git repository, commits and pushes the change.                *)
(*                                                                         *)
(* Texts (manifest bodies, image names, patterns, tags) are sequences of   *)
(* tokens.  A token stands for a run of bytes that the regular expressions *)
(* of the program never split: "name:", "newTag:", a tag value such as     *)
(* "1.0", one blank " ", one line feed "\n", one quote.                     *)
(***************************************************************************)
EXTENDS Integers, Sequences, FiniteSets, TLC

\* ------------------------------------------------------------------ bounds
\* Largest number of image declaration blocks in a generated manifest.
MaxBlocks == 2

\* ------------------------------------------------------------------ texts
LF == "\n"
SP == " "
DQ == "\""
SQ == "'"

Range(s) == {s[i] : i \in 1..Len(s)}

\* s[a:b] of Go: the tokens at offsets a (inclusive) to b (exclusive).
Slice(s, a, b) == SubSeq(s, a + 1, b)

\* ----------------------------------------------------- regular expressions
\* A compiled expression is a sequence of items [c, q]:
\*   q = "1" one token of class c, "?" optional (greedy), "*" greedy star,
\*       "*?" lazy star, "^m" / "$m" line anchors under (?m), "^" / "$" text
\*       anchors, "(" / ")" the borders of capture group 1.
\*   c = [k |-> class, lit |-> token]: "ws" \s, "quote" ["'], "notquote"
\*       [^"'$], "any" . under (?s), "dot" . without it, "lit" a literal.
Cls(k) == [k |-> k, lit |-> ""]
Item(c, q) == [c |-> c, q |-> q]
Lit(tok) == Item([k |-> "lit", lit |-> tok], "1")
Anchor(q) == Item(Cls("none"), q)

\* Tokens that contain the byte '$'.
HasDollar(tok) == tok \in {"$v"}

InClass(c, tok) ==
    CASE c.k = "ws"       -> tok \in {SP, LF, "\t"}
      [] c.k = "quote"    -> tok \in {DQ, SQ}
      [] c.k = "notquote" -> tok \notin {DQ, SQ} /\ ~HasDollar(tok)
      [] c.k = "any"      -> TRUE
      [] c.k = "dot"      -> tok # LF
      [] c.k = "lit"      -> tok = c.lit
      [] OTHER            -> FALSE

NoMatch == [ok |-> FALSE, start |-> 0, end |-> 0, cs |-> 0, ce |-> 0]

\* The longest run of tokens of class c that starts after offset p.
Run(c, s, p) ==
    Cardinality({n \in 1..(Len(s) - p) : \A k \in 1..n : InClass(c, s[p + k])})

\* Whether item it can be passed at offset p at all.
reCan(it, s, p) ==
    CASE it.q = "^m" -> p = 0 \/ s[p] = LF
      [] it.q = "$m" -> p = Len(s) \/ s[p + 1] = LF
      [] it.q = "^"  -> p = 0
      [] it.q = "$"  -> p = Len(s)
      [] it.q = "1"  -> p < Len(s) /\ InClass(it.c, s[p + 1])
      [] OTHER       -> TRUE

\* The offsets at which item it, entered at offset p, hands over to the next
\* item, in the order in which a backtracking matcher tries them: the longest
\* run first for a greedy item, the shortest first for a lazy one.  run is
\* the longest run of the item's class after p.
reOffsets(it, s, p, run) ==
    CASE it.q = "1"  -> <<p + 1>>
      [] it.q = "?"  -> IF p < Len(s) /\ InClass(it.c, s[p + 1])
                        THEN <<p + 1, p>> ELSE <<p>>
      [] it.q = "*"  -> [k \in 1..(run + 1) |-> p + run + 1 - k]
      [] it.q = "*?" -> [k \in 1..(run + 1) |-> p + k - 1]
      [] OTHER       -> <<p>>

reNext(it, s, p) == reOffsets(it, s, p, Run(it.c, s, p))

\* Thread t after item it has been passed up to offset q; a group border
\* records the offset.
reMove(it, t, q) ==
    [i  |-> t.i + 1, p |-> q,
     cs |-> IF it.q = "(" THEN q ELSE t.cs,
     ce |-> IF it.q = ")" THEN q ELSE t.ce]

\* Whether thread t has matched, or can pass its next item.
reAlive(re, s, t) == t.i > Len(re) \/ reCan(re[t.i], s, t.p)

\* The threads that replace thread t when its item hands over at the offsets
\* offs, in priority order; threads that cannot move are dropped at once.
reThreads(re, s, t, offs) ==
    SelectSeq([k \in 1..Len(offs) |-> reMove(re[t.i], t, offs[k])],
              LAMBDA u : reAlive(re, s, u))

\* One step of a backtracking matcher.
reStep(re, s, t) == reThreads(re, s, t, reNext(re[t.i], s, t.p))

\* Runs the matcher on a stack of threads, highest priority first: the match
\* a backtracking engine finds first (Go's leftmost-first rule).
RECURSIVE reRun(_, _, _)
reRun(re, s, stack) ==
    IF stack = <<>> THEN NoMatch
    ELSE IF Head(stack).i > Len(re)
      THEN [ok |-> TRUE, start |-> 0, end |-> Head(stack).p,
            cs |-> Head(stack).cs, ce |-> Head(stack).ce]
    ELSE reRun(re, s, reStep(re, s, Head(stack)) \o Tail(stack))

\* The match of re against s that starts at offset p.
reMatch(re, s, p) ==
    IF reCan(re[1], s, p)
    THEN [reRun(re, s, <<[i |-> 1, p |-> p, cs |-> 0, ce |-> 0]>>) EXCEPT !.start = p]
    ELSE NoMatch

\* The leftmost of the matches ms.
reLeftmost(ms) ==
    IF \A m \in ms : ~m.ok THEN NoMatch
    ELSE CHOOSE m \in ms : m.ok /\ \A n \in ms : n.ok => m.start <= n.start

\* The leftmost match starting at offset from or later.
reFind(re, s, from) == reLeftmost({reMatch(re, s, f) : f \in from..Len(s)})

\* regexp.FindAllStringSubmatchIndex(s, 2): the first two successive matches,
\* the second searched from the end of the first.
FindAll2(re, s) ==
    LET m1 == reFind(re, s, 0)
        m2 == reFind(re, s, IF m1.end > m1.start THEN m1.end ELSE m1.end + 1)
    IN IF m1.ok THEN (IF m2.ok THEN <<m1, m2>> ELSE <<m1>>) ELSE <<>>

\* One or more of class k, greedy (k+), and lazy (k+?).
Plus(k) == <<Item(Cls(k), "1"), Item(Cls(k), "*")>>
LazyPlus(k) == <<Item(Cls(k), "1"), Item(Cls(k), "*?")>>
Opt(k) == <<Item(Cls(k), "?")>>

\* regexp.QuoteMeta: every token of the text is matched literally.
QuoteMeta(text) == [i \in 1..Len(text) |-> Lit(text[i])]

\* --------------------------------------------------------- tag-update engine
\* (?ms)^\s*-\s+name:\s+["']?%s["']?$.+?^\s+newTag:\s+["']?([^"'$]+?)["']?$
reTpl(quotedName) ==
    <<Anchor("^m"), Item(Cls("ws"), "*"), Lit("-")>> \o Plus("ws")
      \o <<Lit("name:")>> \o Plus("ws") \o Opt("quote")
      \o quotedName \o Opt("quote") \o <<Anchor("$m")>>
      \o LazyPlus("any")
      \o <<Anchor("^m")>> \o Plus("ws") \o <<Lit("newTag:")>> \o Plus("ws")
      \o Opt("quote") \o <<Anchor("(")>> \o LazyPlus("notquote")
      \o <<Anchor(")")>> \o Opt("quote") \o <<Anchor("$m")>>

\* changeTag: [err, body]; err is "" on success.
changeTag(kustomizeBody, imageName, newTag) ==
    LET re      == reTpl(QuoteMeta(imageName))
        matches == FindAll2(re, kustomizeBody)
    IN IF Len(matches) = 0
         THEN [err |-> "could not find image definition", body |-> <<>>]
       ELSE IF Len(matches) > 1
         THEN [err |-> "found more than one image definition", body |-> <<>>]
       ELSE LET tagStart == matches[1].cs
                tagEnd   == matches[1].ce
            IN [err  |-> "",
                body |-> Slice(kustomizeBody, 0, tagStart) \o newTag
                           \o Slice(kustomizeBody, tagEnd, Len(kustomizeBody))]

\* fnmatch: exact comparison without '*', else the anchored expression
\* ^part.*part...$ (no flags: ^ and $ are text anchors, . excludes \n).
fnmatch(pattern, input) ==
    IF "*" \notin Range(pattern) THEN input = pattern
    ELSE LET finalPattern ==
               <<Anchor("^")>>
                 \o [i \in 1..Len(pattern) |->
                       IF pattern[i] = "*" THEN Item(Cls("dot"), "*")
                       ELSE Lit(pattern[i])]
                 \o <<Anchor("$")>>
         IN reFind(finalPattern, input, 0).ok

matchImage(images, search) ==
    \E i \in 1..Len(images) : fnmatch(images[i], search)

\* ------------------------------------------------ the manifest as YAML sees it
\* yaml.Unmarshal into types.Kustomization on the manifests of this model: an
\* "images:" line, then per image a "- name: N" line followed by lines
\* " newTag: V" / " newName: V"; a scalar is plain or quoted and may be
\* followed by blanks and a "#c" comment.  Any other line is a decode error.

\* The offset at which the line starting at offset a ends.
LineEnd(text, a) ==
    CHOOSE e \in a..Len(text) :
        /\ e = Len(text) \/ text[e + 1] = LF
        /\ \A k \in a..(e - 1) : text[k + 1] # LF

\* Blanks, optionally followed by a comment, between offsets a and e.
IsTrailer(text, a, e) ==
    \/ \A k \in a..(e - 1) : text[k + 1] = SP
    \/ \E c \in (a + 1)..(e - 1) :
         /\ text[c + 1] = "#c"
         /\ \A k \in a..(c - 1) : text[k + 1] = SP

\* The scalar between offsets a and e: [ok, s, t], its value being text[s:t].
Scalar(text, a, e) ==
    IF a >= e THEN [ok |-> FALSE, s |-> a, t |-> a]
    ELSE IF text[a + 1] \in {DQ, SQ}
      THEN LET closing == {j \in (a + 1)..(e - 1) : text[j + 1] = text[a + 1]}
           IN IF closing = {} THEN [ok |-> FALSE, s |-> a, t |-> a]
              ELSE LET j == CHOOSE x \in closing : \A y \in closing : x <= y
                   IN [ok |-> IsTrailer(text, j + 1, e), s |-> a + 1, t |-> j]
    ELSE LET ends == {t \in (a + 1)..e : IsTrailer(text, t, e) /\ text[t] # SP}
         IN IF ends = {} THEN [ok |-> FALSE, s |-> a, t |-> a]
            ELSE [ok |-> TRUE, s |-> a,
                  t |-> CHOOSE x \in ends : \A y \in ends : x <= y]

StartsWith(text, a, e, prefix) ==
    /\ a + Len(prefix) <= e
    /\ Slice(text, a, a + Len(prefix)) = prefix

NoTag == <<"<none>">>

\* One image entry with the scalar v of its name line; a decode error if
\* v is none.  An entry is [name, tag, ts, te], the tag's value being
\* text[ts:te] (NoTag, 0, 0 without a newTag line).
yamlName(text, acc, v) ==
    IF ~v.ok THEN [ok |-> FALSE, images |-> <<>>]
    ELSE [ok |-> TRUE,
          images |-> Append(acc, [name |-> Slice(text, v.s, v.t),
                                  tag |-> NoTag, ts |-> 0, te |-> 0])]

\* The newTag scalar v of the last entry.
yamlTag(text, acc, v) ==
    IF ~v.ok THEN [ok |-> FALSE, images |-> <<>>]
    ELSE [ok |-> TRUE,
          images |-> [acc EXCEPT ![Len(acc)].tag = Slice(text, v.s, v.t),
                                 ![Len(acc)].ts = v.s,
                                 ![Len(acc)].te = v.t]]

\* The line text[a:e] decoded after the entries acc.
yamlLine(text, a, e, acc) ==
    CASE a = 0 /\ Slice(text, a, e) = <<"images:">> -> [ok |-> TRUE, images |-> acc]
      [] e = a -> [ok |-> TRUE, images |-> acc]
      [] StartsWith(text, a, e, <<"-", SP, "name:", SP>>) ->
           yamlName(text, acc, Scalar(text, a + 4, e))
      [] StartsWith(text, a, e, <<SP, "newTag:", SP>>) /\ Len(acc) > 0 ->
           yamlTag(text, acc, Scalar(text, a + 3, e))
      [] StartsWith(text, a, e, <<SP, "newName:", SP>>) /\ Len(acc) > 0 ->
           [ok |-> Scalar(text, a + 3, e).ok, images |-> acc]
      [] OTHER -> [ok |-> FALSE, images |-> <<>>]

\* The declared images, in order; ok is FALSE on a decode error.
RECURSIVE yamlImages(_, _, _, _)
yamlImages(text, a, e, r) ==
    IF ~r.ok \/ a >= Len(text) THEN r
    ELSE yamlImages(text, e + 1, LineEnd(text, IF e + 1 > Len(text) THEN e ELSE e + 1),
                    yamlLine(text, a, e, r.images))

Unmarshal(text) ==
    yamlImages(text, 0, LineEnd(text, 0), [ok |-> TRUE, images |-> <<>>])

\* ------------------------------------------------------- Deployment.Apply
NoFile == <<"<absent>">>

\* One round of the loop over kustomization.Images, r being the result of
\* changeTag for the image: st = [body, changeMade, wanted, err].
applyTag(st, name, r) ==
    IF r.err # "" THEN [st EXCEPT !.err = r.err, !.wanted = @ \ {name}]
    ELSE [body       |-> r.body,
          changeMade |-> r.body # st.body,
          wanted     |-> st.wanted \ {name},
          err        |-> ""]

applyImage(images, name, newTag, st) ==
    IF ~matchImage(images, name) THEN st
    ELSE applyTag(st, name, changeTag(st.body, name, newTag))

\* The loop; it ends at the first error.
RECURSIVE applyImages(_, _, _, _, _)
applyImages(images, declared, k, newTag, st) ==
    IF k > Len(declared) \/ st.err # "" THEN st
    ELSE applyImages(images, declared, k + 1, newTag,
                     applyImage(images, declared[k].name, newTag, st))

NoCommit == [file |-> NoFile, name |-> "", tag |-> <<>>, user |-> ""]

\* An Apply that stages the manifest file before it returns its error.
applyFailStaged(file, e, w) ==
    [outcome |-> "error", err |-> e, unmatched |-> w,
     file |-> file, staged |-> TRUE, commit |-> NoCommit]

applyFail(file, e, w) ==
    [outcome |-> "error", err |-> e, unmatched |-> w,
     file |-> file, staged |-> FALSE, commit |-> NoCommit]

\* What Apply returns and leaves behind once the loop ended in st.
applyEnd(d, file, newTag, user, commitOk, decoded, st) ==
    IF file = NoFile THEN applyFail(file, "failed to open kustomization file", {})
    ELSE IF ~decoded THEN applyFail(file, "failed to decode kustomization file", {})
    ELSE IF st.err # "" THEN applyFail(file, st.err, {})
    ELSE IF st.wanted # {}
      THEN applyFail(file, "kustomization file does not contain image(s)", st.wanted)
    ELSE IF ~st.changeMade
      THEN [outcome |-> "nomod", err |-> "no changes made", unmatched |-> {},
            file |-> file, staged |-> FALSE, commit |-> NoCommit]
    ELSE IF ~commitOk
      THEN [outcome |-> "error", err |-> "failed to commit kustomization file",
            unmatched |-> {}, file |-> st.body, staged |-> TRUE,
            commit |-> NoCommit]
    ELSE [outcome |-> "commit", err |-> "", unmatched |-> {},
          file |-> st.body, staged |-> TRUE,
          commit |-> [file |-> st.body, name |-> d.Name,
                      tag |-> newTag, user |-> user]]

\* Every pattern, with or without '*'.
allPatterns(images) == Range(images)

\* The patterns without '*': the images that must be found.
wantedImages(images) ==
    {images[i] : i \in {j \in 1..Len(images) : "*" \notin Range(images[j])}}

\* The state in which the loop over the declared images ends.
applyLoop(images, file, newTag, kustomization) ==
    applyImages(images, kustomization.images, 1, newTag,
                [body |-> file, changeMade |-> FALSE,
                 wanted |-> wantedImages(images), err |-> ""])

applyDecoded(d, file, newTag, user, commitOk, kustomization) ==
    applyEnd(d, file, newTag, user, commitOk, kustomization.ok,
             applyLoop(d.Images, file, newTag, kustomization))

\* Deployment.Apply on a worktree whose manifest file is `file`; commitOk says
\* whether worktree.Commit succeeds.  The result gives the outcome ("commit",
\* "nomod" or "error"), the error, the unmatched required images, the manifest
\* file left in the worktree, whether it was staged, and the commit made.
Apply(d, file, newTag, user, commitOk) ==
    applyDecoded(d, file, newTag, user, commitOk, Unmarshal(file))

\* ------------------------------------------------------ manifests of the model
App == <<"app">>
Sidecar == <<"side", "car">>
Db == <<"db">>
ImageNames == {App, Sidecar}
OldTags == {"1.0", "2.0"}
TagStyles == {"plain", "quoted", "trail", "none"}

NameLine(name) == <<"-", SP, "name:", SP>> \o name \o <<LF>>

TagLine(style, tag) ==
    CASE style = "plain"  -> <<SP, "newTag:", SP, tag, LF>>
      [] style = "quoted" -> <<SP, "newTag:", SP, DQ, tag, DQ, LF>>
      [] style = "trail"  -> <<SP, "newTag:", SP, tag, SP, "#c", LF>>
      [] style = "none"   -> <<SP, "newName:", SP, "img", LF>>

Block(b) == NameLine(b.name) \o TagLine(b.style, b.tag)

BlockShapes ==
    {[name |-> n, style |-> st, tag |-> t] :
        n \in ImageNames, st \in TagStyles \ {"none"}, t \in OldTags}
    \cup {[name |-> n, style |-> "none", tag |-> "1.0"] : n \in ImageNames}

RECURSIVE Render(_)
Render(blocks) ==
    IF blocks = <<>> THEN <<"images:", LF>>
    ELSE Render(SubSeq(blocks, 1, Len(blocks) - 1)) \o Block(blocks[Len(blocks)])

BlockLists == UNION {[1..n -> BlockShapes] : n \in 1..MaxBlocks}
Manifests == {Render(bl) : bl \in BlockLists}
Garbage == <<"images:", LF, "{", LF>>

\* ------------------------------------------------------------ configuration
\* NewServer: the configured repositories and deployments (immutable).
RepositoryNames == {"infra", "tools"}

deployments ==
    [web    |-> [Name |-> "web", RepositoryName |-> "infra",
                 Images |-> <<App, Sidecar>>, ApplicationName |-> "web-app"],
     api    |-> [Name |-> "api", RepositoryName |-> "infra",
                 Images |-> <<App>>, ApplicationName |-> ""],
     batch  |-> [Name |-> "batch", RepositoryName |-> "tools",
                 Images |-> <<App, <<"side", "*">>>>,
                 ApplicationName |-> "batch-app"],
     orphan |-> [Name |-> "orphan", RepositoryName |-> "ghost",
                 Images |-> <<App>>, ApplicationName |-> ""]]

DeploymentNames == DOMAIN deployments

\* ------------------------------------------------------------------- state
VARIABLES
    req,       \* per handler goroutine: the request it serves and its progress
    mutex,     \* Repository.Mutex: the goroutine holding it, 0 when free
    session,   \* Repository.storage / filesystem / repository
    upstream,  \* the manifest at the head of each remote branch
    eng,       \* the tag-update engine applied on its own to drawn inputs
    front,     \* the mux and its gates: configuration, last request, answer
    argo       \* one ArgoCD sync session (argoSync)

vars == <<req, mutex, session, upstream, eng, front, argo>>

\* Number of handler goroutines that run concurrently.
MaxInFlight == 2
Handlers == 1..MaxInFlight

Nil == [nil |-> TRUE]

\* ---------------------------------------------------------------- requests
Spaced == <<"1", SP, "0">>
TAB == "\t"
Tabbed == <<"1", TAB, "0">>
NoTagName == <<>>

Payload(d, t, a) == [Deployment |-> d, TagName |-> t, AuthorizedBy |-> a]
NoPayload == Payload("", NoTagName, "")

Request(m, b, p) == [Method |-> m, Body |-> b, payload |-> p]

\* Body: "ok" decodes strictly into payload; "unreadable" fails io.ReadAll;
\* "syntax" is no JSON; "unknown field" and "duplicate key" decode with a
\* strict error.
Requests ==
    {Request("GET", "ok", NoPayload), Request("GET", "syntax", NoPayload)}
    \cup {Request("POST", b, NoPayload) :
            b \in {"unreadable", "syntax", "unknown field", "duplicate key"}}
    \cup {Request("POST", "ok", Payload(d, <<"2.0">>, "alice")) :
            d \in DeploymentNames \cup {"nosuch"}}
    \cup {Request("POST", "ok", Payload("web", <<"1.0">>, "alice"))}
    \cup {Request("POST", "ok", p) :
            p \in {Payload("", <<"2.0">>, "alice"),
                   Payload("web", NoTagName, "alice"),
                   Payload("web", <<"2.0">>, ""),
                   Payload("web", Spaced, "alice"),
                   Payload("nosuch", Tabbed, "alice"),
                   Payload("nosuch", NoTagName, "alice")}}

\* webhookPayload.Validate: "" when valid, else the error text.
Validate(p) ==
    IF p.Deployment = "" THEN "Nissing field: deployment"
    ELSE IF p.TagName = <<>> THEN "Nissing field: tag_name"
    ELSE IF p.AuthorizedBy = "" THEN "Nissing field: authorized_by"
    ELSE IF SP \in Range(p.TagName) THEN "Invalid field: tag_name"
    ELSE ""

\* json.UnmarshalStrict with DisallowDuplicateFields, DisallowUnknownFields:
\* the first error, "" when there is none.
firstError(body) ==
    CASE body = "syntax"        -> "invalid character"
      [] body = "unknown field" -> "unknown field"
      [] body = "duplicate key" -> "duplicate field"
      [] OTHER                  -> ""

\* No sync session started for the request.
NoSync == [applicationName |-> "", waitForRevision |-> NoCommit]

Idle ==
    [pc |-> "idle", in |-> Request("GET", "ok", NoPayload), status |-> 0,
     text |-> "", ctxErr |-> FALSE, repo |-> "", defers |-> <<>>,
     fetches |-> 0, discards |-> 0, pushes |-> 0, fetched |-> FALSE,
     apply |-> "none", base |-> NoFile, commit |-> NoCommit, pushed |-> FALSE,
     sync |-> NoSync]

\* A return that leaves the function without running its deferred calls.
RespondAbrupt(q, code, text) ==
    [q EXCEPT !.status = code, !.text = text, !.defers = <<>>, !.pc = "done"]

\* resp.WriteHeader(code); resp.Write(text); return.
Respond(q, code, text) ==
    [q EXCEPT !.status = code, !.text = text,
              !.pc = IF q.defers = <<>> THEN "done" ELSE "return"]

\* The manifests the remote branches may hold at start.
Quoted1 == Render(<<[name |-> App, style |-> "quoted", tag |-> "1.0"]>>)
InfraManifests ==
    {Quoted1,
     Render(<<[name |-> App, style |-> "plain", tag |-> "1.0"],
              [name |-> Sidecar, style |-> "quoted", tag |-> "2.0"]>>),
     Render(<<[name |-> App, style |-> "none", tag |-> "1.0"],
              [name |-> Sidecar, style |-> "trail", tag |-> "1.0"]>>),
     Render(<<[name |-> App, style |-> "quoted", tag |-> "1.0"],
              [name |-> App, style |-> "quoted", tag |-> "1.0"]>>),
     Garbage}

NoSession == [storage |-> Nil, filesystem |-> Nil, repository |-> Nil]

\* ------------------------------------------------------------ engine inputs
NewTags == {<<"1.0">>, <<"2.0">>, <<"$v">>}
PatternLists ==
    {<<App>>, <<Sidecar>>, <<App, Sidecar>>, <<App, <<"side", "*">>>>,
     <<App, Db>>, <<<<"*">>>>}
Crowded ==
    Render(<<[name |-> App, style |-> "none", tag |-> "1.0"],
             [name |-> App, style |-> "none", tag |-> "1.0"],
             [name |-> Sidecar, style |-> "plain", tag |-> "1.0"],
             [name |-> Db, style |-> "plain", tag |-> "1.0"]>>)
EngineFiles == Manifests \cup {Garbage, NoFile, Crowded}
NoResult == Apply([Name |-> "", Images |-> <<>>], NoFile, <<>>, "", TRUE)
\* The server before any configuration of the gates, and before any request.
NoConfig == [SecretKey |-> "", AllowedIPs |-> {}]
NoAddr == [ip |-> <<>>, port |-> ""]
FrontIdle(cfg) ==
    [cfg |-> cfg, pc |-> "listen", Method |-> "", Path |-> "",
     RemoteAddr |-> NoAddr, Key |-> "", status |-> 0, body |-> "",
     to |-> "none"]

\* No sync session.
ArgoIdle ==
    [pc |-> "idle", attempts |-> 0, target |-> <<>>, conn |-> "closed",
     steps |-> <<>>, authed |-> FALSE, ready |-> FALSE, events |-> 0,
     last |-> <<>>, syncs |-> 0, err |-> "", permanent |-> FALSE,
     ctxDone |-> FALSE]

EngIdle(body, tag) ==
    [op |-> "input", body |-> body, newTag |-> tag, images |-> <<>>,
     name |-> <<>>, out |-> [err |-> "", body |-> <<>>],
     first |-> NoResult, second |-> NoResult, matched |-> FALSE]

Init ==
    /\ req = [r \in Handlers |-> Idle]
    /\ mutex = [n \in RepositoryNames |-> 0]
    /\ session = [n \in RepositoryNames |-> NoSession]
    /\ upstream \in [RepositoryNames -> InfraManifests]
    /\ upstream["tools"] = Quoted1
    /\ eng = EngIdle(NoFile, <<>>)
    /\ front = FrontIdle(NoConfig)
    /\ argo = ArgoIdle

\* A dispatcher that sends every valid request on to the lock of a
\* repository without resolving the deployment or its repository.
DispatchUnresolved(r, in) ==
    /\ req[r].pc = "idle"
    /\ LET q == [Idle EXCEPT !.in = in]
           p == in.payload
       IN req' = [req EXCEPT ![r] =
            IF in.Method # "POST" THEN Respond(q, 405, "Method not allowed")
            ELSE IF in.Body # "ok" THEN Respond(q, 500, "Failed to decode payload")
            ELSE IF Validate(p) # "" THEN Respond(q, 400, Validate(p))
            ELSE [q EXCEPT !.repo = "infra", !.pc = "lock"]]
    /\ UNCHANGED <<mutex, session, upstream, eng, front, argo>>

\* A dispatcher that looks the deployment up before it validates the fields.
DispatchLooksUpFirst(r, in) ==
    /\ req[r].pc = "idle"
    /\ LET q == [Idle EXCEPT !.in = in]
           p == in.payload
       IN req' = [req EXCEPT ![r] =
            IF in.Method # "POST" THEN Respond(q, 405, "Method not allowed")
            ELSE IF in.Body = "unreadable"
              THEN Respond(q, 500, "Failed to read payload")
            ELSE IF firstError(in.Body) # ""
              THEN Respond(q, 500, "Failed to decode payload")
            ELSE IF p.Deployment \notin DOMAIN deployments
              THEN Respond(q, 404, "Deployment not found")
            ELSE IF Validate(p) # "" THEN Respond(q, 400, Validate(p))
            ELSE IF deployments[p.Deployment].RepositoryName \notin RepositoryNames
              THEN Respond(q, 500, "Internal server error")
            ELSE [q EXCEPT !.repo = deployments[p.Deployment].RepositoryName,
                           !.pc = "lock"]]
    /\ UNCHANGED <<mutex, session, upstream, eng, front, argo>>

\* A dispatcher whose logError writes the error instead of the fixed text.
DispatchEchoesError(r, in) ==
    /\ req[r].pc = "idle"
    /\ LET q == [Idle EXCEPT !.in = in]
           p == in.payload
       IN req' = [req EXCEPT ![r] =
            IF in.Method # "POST" THEN Respond(q, 405, "Method not allowed")
            ELSE IF in.Body = "unreadable"
              THEN Respond(q, 500, "unexpected EOF")
            ELSE IF firstError(in.Body) # ""
              THEN Respond(q, 500, firstError(in.Body))
            ELSE IF Validate(p) # "" THEN Respond(q, 400, Validate(p))
            ELSE IF p.Deployment \notin DOMAIN deployments
              THEN Respond(q, 404, "Deployment not found")
            ELSE IF deployments[p.Deployment].RepositoryName \notin RepositoryNames
              THEN Respond(q, 500, "Internal server error")
            ELSE [q EXCEPT !.repo = deployments[p.Deployment].RepositoryName,
                           !.pc = "lock"]]
    /\ UNCHANGED <<mutex, session, upstream, eng, front, argo>>

\* --------------------------------------------------- WebhookServer.ServeHTTP
\* Method check, body read, strict decode, validation and the two lookups.
Dispatch(r, in) ==
    /\ req[r].pc = "idle"
    /\ LET q == [Idle EXCEPT !.in = in]
           p == in.payload
       IN req' = [req EXCEPT ![r] =
            IF in.Method # "POST" THEN Respond(q, 405, "Method not allowed")
            ELSE IF in.Body = "unreadable"
              THEN Respond(q, 500, "Failed to read payload")
            ELSE IF firstError(in.Body) # ""
              THEN Respond(q, 500, "Failed to decode payload")
            ELSE IF Validate(p) # "" THEN Respond(q, 400, Validate(p))
            ELSE IF p.Deployment \notin DOMAIN deployments
              THEN Respond(q, 404, "Deployment not found")
            ELSE IF deployments[p.Deployment].RepositoryName \notin RepositoryNames
              THEN Respond(q, 500, "Internal server error")
            ELSE [q EXCEPT !.repo = deployments[p.Deployment].RepositoryName,
                           !.pc = "lock"]]
    /\ UNCHANGED <<mutex, session, upstream, eng, front, argo>>

\* A lock that never waits.
MutexAlwaysFree(n) == TRUE

\* One lock for all repositories.
MutexGlobal(n) == \A m \in RepositoryNames : mutex[m] = 0

\* sync.Mutex.Lock returns only when no goroutine holds the mutex.
MutexFree(n) == mutex[n] = 0

\* A handler that goes on to Fetch whatever the state of the deadline.
LockThenFetch(r) ==
    /\ req[r].pc = "lock"
    /\ MutexFree(req[r].repo)
    /\ mutex' = [mutex EXCEPT ![req[r].repo] = r]
    /\ req' = [req EXCEPT ![r] =
         [@ EXCEPT !.defers = <<"Discard", "Unlock">>, !.pc = "fetch"]]
    /\ UNCHANGED <<session, upstream, eng, front, argo>>

\* A handler that defers Discard before Unlock, so that Unlock runs first.
LockDiscardsLast(r) ==
    /\ req[r].pc = "lock"
    /\ MutexFree(req[r].repo)
    /\ mutex' = [mutex EXCEPT ![req[r].repo] = r]
    /\ req' = [req EXCEPT ![r] =
         IF req[r].ctxErr
           THEN [@ EXCEPT !.defers = <<"Unlock">>, !.pc = "return"]
         ELSE [@ EXCEPT !.defers = <<"Unlock", "Discard">>, !.pc = "fetch"]]
    /\ UNCHANGED <<session, upstream, eng, front, argo>>

\* repo.Mutex.Lock(); defer Unlock; the deadline short circuit; defer Discard.
Lock(r) ==
    /\ req[r].pc = "lock"
    /\ MutexFree(req[r].repo)
    /\ mutex' = [mutex EXCEPT ![req[r].repo] = r]
    /\ req' = [req EXCEPT ![r] =
         IF req[r].ctxErr
           THEN [@ EXCEPT !.defers = <<"Unlock">>, !.pc = "return"]
         ELSE [@ EXCEPT !.defers = <<"Discard", "Unlock">>, !.pc = "fetch"]]
    /\ UNCHANGED <<session, upstream, eng, front, argo>>

\* Repository.Fetch: fresh storage and filesystem, then the clone.
RepositoryFetch(r, n, cloneOk) ==
    [storage    |-> [by |-> r],
     filesystem |-> [by |-> r, file |-> IF cloneOk THEN upstream[n] ELSE NoFile],
     repository |-> IF cloneOk
                      THEN [by |-> r, head |-> upstream[n], ahead |-> NoCommit]
                    ELSE session[n].repository]

Fetch(r, ok) ==
    /\ req[r].pc = "fetch"
    /\ LET n       == req[r].repo
           cloneOk == ok /\ ~req[r].ctxErr
           q       == [req[r] EXCEPT !.fetches = @ + 1]
       IN /\ session' = [session EXCEPT ![n] = RepositoryFetch(r, n, cloneOk)]
          /\ req' = [req EXCEPT ![r] =
               IF cloneOk THEN [q EXCEPT !.fetched = TRUE, !.pc = "apply"]
               ELSE Respond(q, 500, "Internal server error")]
    /\ UNCHANGED <<mutex, upstream, eng, front, argo>>

\* A handler that goes on to push when Apply made no change.
applyStatusIgnoresNoMod(outcome) == IF outcome = "error" THEN 500 ELSE 0

\* A handler that answers 304 to every error of Apply.
applyStatusLenient(outcome) == IF outcome = "commit" THEN 0 ELSE 304

\* The handler's answer to what Apply returned: 304 for errorNoModification,
\* 500 for any other error, 0 (no answer yet: go on to push) without error.
applyStatus(outcome) ==
    CASE outcome = "nomod" -> 304
      [] outcome = "error" -> 500
      [] OTHER -> 0

applyText(outcome) ==
    IF outcome = "nomod" THEN "No changes made" ELSE "Internal server error"

\* repo.Worktree() and deployment.Apply on it.
ApplyStep(r, wtOk, commitOk) ==
    /\ req[r].pc = "apply"
    /\ LET n   == req[r].repo
           p   == req[r].in.payload
           wt  == session[n].filesystem.file
           res == Apply(deployments[p.Deployment], wt, p.TagName,
                        p.AuthorizedBy, commitOk)
           q   == [req[r] EXCEPT !.apply = res.outcome, !.base = wt,
                                 !.commit = res.commit]
       IN IF ~wtOk
            THEN /\ req' = [req EXCEPT ![r] =
                              Respond(req[r], 500, "Internal server error")]
                 /\ UNCHANGED session
          ELSE /\ session' = [session EXCEPT
                     ![n].filesystem.file = res.file,
                     ![n].repository.ahead = res.commit]
               /\ req' = [req EXCEPT ![r] =
                    IF applyStatus(res.outcome) # 0
                      THEN Respond(q, applyStatus(res.outcome), applyText(res.outcome))
                    ELSE [q EXCEPT !.pc = "push"]]
    /\ UNCHANGED <<mutex, upstream, eng, front, argo>>

\* A handler that starts the sync session whatever its deployment.
engageAlways(d, commit) ==
    [applicationName |-> d.ApplicationName, waitForRevision |-> commit]

\* After a push that succeeded: for a deployment with an application name,
\* argoSync(applicationName, commit hash) is started on its own goroutine;
\* the handler does not wait for it.
engageSync(d, commit) ==
    IF d.ApplicationName # ""
      THEN [applicationName |-> d.ApplicationName, waitForRevision |-> commit]
      ELSE NoSync

\* A handler that tries a failed push once more before it answers.
PushRetried(r, ok) ==
    /\ req[r].pc = "push"
    /\ LET n      == req[r].repo
           d      == deployments[req[r].in.payload.Deployment]
           pushOk == ok /\ ~req[r].ctxErr
           q      == [req[r] EXCEPT !.pushes = @ + 1]
       IN /\ upstream' = [upstream EXCEPT ![n] =
               IF pushOk THEN session[n].repository.ahead.file ELSE @]
          /\ req' = [req EXCEPT ![r] =
               IF pushOk
                 THEN Respond([q EXCEPT !.pushed = TRUE,
                                        !.sync = engageSync(d, q.commit)],
                              200, "OK")
               ELSE IF q.pushes < 2 THEN q
               ELSE Respond(q, 500, "Internal server error")]
    /\ UNCHANGED <<mutex, session, eng, front, argo>>

\* Repository.Push and the final response.
Push(r, ok) ==
    /\ req[r].pc = "push"
    /\ LET n      == req[r].repo
           d      == deployments[req[r].in.payload.Deployment]
           pushOk == ok /\ ~req[r].ctxErr
           q      == [req[r] EXCEPT !.pushes = @ + 1]
       IN /\ upstream' = [upstream EXCEPT ![n] =
               IF pushOk THEN session[n].repository.ahead.file ELSE @]
          /\ req' = [req EXCEPT ![r] =
               IF pushOk
                 THEN Respond([q EXCEPT !.pushed = TRUE,
                                        !.sync = engageSync(d, q.commit)],
                              200, "OK")
               ELSE Respond(q, 500, "Internal server error")]
    /\ UNCHANGED <<mutex, session, eng, front, argo>>

\* Repository.Discard.
RepositoryDiscard(n) ==
    [session[n] EXCEPT !.storage = Nil, !.filesystem = Nil]

\* Deferred calls in which Unlock returns without releasing the mutex.
DeferredKeepsLock(r) ==
    /\ req[r].pc = "return"
    /\ LET n    == req[r].repo
           call == Head(req[r].defers)
           rest == Tail(req[r].defers)
           q    == [req[r] EXCEPT !.defers = rest,
                      !.pc = IF rest = <<>> THEN "done" ELSE "return"]
       IN IF call = "Discard"
            THEN /\ session' = [session EXCEPT ![n] = RepositoryDiscard(n)]
                 /\ req' = [req EXCEPT ![r] = [q EXCEPT !.discards = @ + 1]]
            ELSE /\ req' = [req EXCEPT ![r] = q]
                 /\ UNCHANGED session
    /\ UNCHANGED <<mutex, upstream, eng, front, argo>>

\* The deferred calls of the handler, last deferred first.
Deferred(r) ==
    /\ req[r].pc = "return"
    /\ LET n    == req[r].repo
           call == Head(req[r].defers)
           rest == Tail(req[r].defers)
           q    == [req[r] EXCEPT !.defers = rest,
                      !.pc = IF rest = <<>> THEN "done" ELSE "return"]
       IN IF call = "Discard"
            THEN /\ session' = [session EXCEPT ![n] = RepositoryDiscard(n)]
                 /\ req' = [req EXCEPT ![r] = [q EXCEPT !.discards = @ + 1]]
                 /\ UNCHANGED mutex
          ELSE /\ mutex' = [mutex EXCEPT ![n] = 0]
               /\ req' = [req EXCEPT ![r] = q]
               /\ UNCHANGED session
    /\ UNCHANGED <<upstream, eng, front, argo>>

\* The request's context ends: the deadline passes or the caller goes away.
Cancel(r) ==
    /\ req[r].pc \in {"lock", "fetch", "push"}
    /\ ~req[r].ctxErr
    /\ req' = [req EXCEPT ![r].ctxErr = TRUE]
    /\ UNCHANGED <<mutex, session, upstream, eng, front, argo>>

Next ==
    \/ \E r \in Handlers, in \in Requests : Dispatch(r, in)
    \/ \E r \in Handlers : Lock(r)
    \/ \E r \in Handlers, ok \in BOOLEAN : Fetch(r, ok)
    \/ \E r \in Handlers, wtOk \in BOOLEAN, commitOk \in BOOLEAN :
         ApplyStep(r, wtOk, commitOk)
    \/ \E r \in Handlers, ok \in BOOLEAN : Push(r, ok)
    \/ \E r \in Handlers : Deferred(r)
    \/ \E r \in Handlers : Cancel(r)

Spec == Init /\ [][Next]_vars

\* The server under the scheduling the runtime gives it: a goroutine that
\* can run does run, a goroutine blocked in Mutex.Lock is woken once the
\* mutex is free, and the network calls of Fetch and Push return.
SpecFair ==
    /\ Spec
    /\ \A r \in Handlers :
         /\ WF_vars(Lock(r))
         /\ WF_vars(\E ok \in BOOLEAN : Fetch(r, ok))
         /\ WF_vars(\E wtOk \in BOOLEAN, commitOk \in BOOLEAN :
                      ApplyStep(r, wtOk, commitOk))
         /\ WF_vars(\E ok \in BOOLEAN : Push(r, ok))
         /\ WF_vars(Deferred(r))

\* ------------------------------------------- the engine applied on its own
InitEngine ==
    /\ req = [r \in Handlers |-> Idle]
    /\ mutex = [n \in RepositoryNames |-> 0]
    /\ session = [n \in RepositoryNames |-> NoSession]
    /\ upstream = [n \in RepositoryNames |-> Quoted1]
    /\ eng \in {EngIdle(body, tag) : body \in EngineFiles, tag \in NewTags}
    /\ front = FrontIdle(NoConfig)
    /\ argo = ArgoIdle

EngDeployment(images) ==
    [Name |-> "web", RepositoryName |-> "infra", Images |-> images,
     ApplicationName |-> ""]

\* changeTag(body, name, newTag) for an image name.
EngChangeTag(name) ==
    /\ eng.op = "input"
    /\ eng' = [eng EXCEPT !.op = "changeTag", !.name = name,
                          !.out = changeTag(eng.body, name, eng.newTag)]
    /\ UNCHANGED <<req, mutex, session, upstream, front, argo>>

\* Apply of a deployment with the patterns images.
EngApply(images) ==
    /\ eng.op = "input"
    /\ eng' = [eng EXCEPT !.op = "apply", !.images = images,
                 !.first = Apply(EngDeployment(images), eng.body, eng.newTag,
                                 "alice", TRUE)]
    /\ UNCHANGED <<req, mutex, session, upstream, front, argo>>

\* After a commit, Apply of the same deployment and tag on the new manifest.
EngApplyAgain ==
    /\ eng.op = "apply"
    /\ eng.first.outcome = "commit"
    /\ eng' = [eng EXCEPT !.op = "again",
                 !.second = Apply(EngDeployment(eng.images), eng.first.file,
                                  eng.newTag, "alice", TRUE)]
    /\ UNCHANGED <<req, mutex, session, upstream, front, argo>>

NextEngine ==
    \/ \E name \in ImageNames : EngChangeTag(name)
    \/ \E images \in PatternLists : EngApply(images)
    \/ EngApplyAgain

SpecEngine == InitEngine /\ [][NextEngine]_vars

\* ----------------------------------------------------- fnmatch on its own
\* Longest image name, in tokens, that fnmatch is applied to.
MaxNameLen == 3

GlobTokens == {"app", "-", "foo", "car", LF}
GlobInputs == UNION {[1..n -> GlobTokens] : n \in 0..MaxNameLen}
GlobPatterns ==
    {<<"app">>, <<"app", "-", "*">>, <<"*">>, <<"*", "car">>,
     <<"app", "*", "foo">>, <<"*", "-", "*">>, <<"app", "-", "foo">>}

InitGlob ==
    /\ req = [r \in Handlers |-> Idle]
    /\ mutex = [n \in RepositoryNames |-> 0]
    /\ session = [n \in RepositoryNames |-> NoSession]
    /\ upstream = [n \in RepositoryNames |-> Quoted1]
    /\ eng \in {[EngIdle(NoFile, <<>>) EXCEPT !.images = <<pattern>>,
                                               !.name = input] :
                  pattern \in GlobPatterns, input \in GlobInputs}
    /\ front = FrontIdle(NoConfig)
    /\ argo = ArgoIdle

\* fnmatch(pattern, input) for the drawn pattern and image name.
EngFnmatch ==
    /\ eng.op = "input"
    /\ eng' = [eng EXCEPT !.op = "fnmatch",
                          !.matched = fnmatch(eng.images[1], eng.name)]
    /\ UNCHANGED <<req, mutex, session, upstream, front, argo>>

NextGlob == EngFnmatch

SpecGlob == InitGlob /\ [][NextGlob]_vars

\* ------------------------------------------------------------------ argoSync
\* Attempts of backoff.Retry and events of one watch the model follows.
MaxAttempts == 3
MaxEvents == 2

\* Revisions as texts: a commit hash and the same hash cut short.
Revisions == {<<"4f", "9c">>, <<"4f">>, <<"a1">>}

\* The errors of appClient.Get that doArgoSync wraps in backoff.Permanent.
PermanentCodes == {"DeadlineExceeded", "Unauthenticated", "PermissionDenied"}
GetResults == {"ok", "Unavailable"} \cup PermanentCodes

InitArgo ==
    /\ req = [r \in Handlers |-> Idle]
    /\ mutex = [n \in RepositoryNames |-> 0]
    /\ session = [n \in RepositoryNames |-> NoSession]
    /\ upstream = [n \in RepositoryNames |-> Quoted1]
    /\ eng = EngIdle(NoFile, <<>>)
    /\ front = FrontIdle(NoConfig)
    /\ argo = ArgoIdle

\* doArgoSync returns err: the deferred closer.Close() runs, and
\* backoff.Retry ends the session on a permanent error.
ArgoReturn(a, err, permanent) ==
    [a EXCEPT !.err = err, !.permanent = permanent,
              !.conn = "closed",
              !.pc = IF permanent THEN "failed" ELSE "backoff"]

\* argoSync(applicationName, waitForRevision): the context with its
\* deadline, and the first call of doArgoSync by backoff.Retry.
ArgoSync(waitForRevision) ==
    /\ argo.pc = "idle"
    /\ argo' = [ArgoIdle EXCEPT !.pc = "connect", !.attempts = 1,
                                !.target = waitForRevision]
    /\ UNCHANGED <<req, mutex, session, upstream, eng, front>>

\* apiclient.NewClient and client.NewApplicationClient.
ArgoConnect(ok) ==
    /\ argo.pc = "connect"
    /\ argo' = IF ok
                 THEN [argo EXCEPT !.conn = "open", !.pc = "get",
                                   !.steps = Append(@, "connect")]
                 ELSE ArgoReturn(argo, "connecting to argocd failed", FALSE)
    /\ UNCHANGED <<req, mutex, session, upstream, eng, front>>

\* A Get whose errors are all handed back to backoff.Retry as they are.
ArgoGetRetriesAll(result) ==
    /\ argo.pc = "get"
    /\ argo.ctxDone => result = "DeadlineExceeded"
    /\ argo' = IF result = "ok"
                 THEN [argo EXCEPT !.authed = TRUE, !.pc = "watch",
                                   !.steps = Append(@, "authenticate")]
                 ELSE ArgoReturn(argo, result, FALSE)
    /\ UNCHANGED <<req, mutex, session, upstream, eng, front>>

\* appClient.Get: the read that shows the token is accepted.
ArgoGet(result) ==
    /\ argo.pc = "get"
    /\ argo.ctxDone => result = "DeadlineExceeded"
    /\ argo' = IF result = "ok"
                 THEN [argo EXCEPT !.authed = TRUE, !.pc = "watch",
                                   !.steps = Append(@, "authenticate")]
                 ELSE ArgoReturn(argo, result, result \in PermanentCodes)
    /\ UNCHANGED <<req, mutex, session, upstream, eng, front>>

\* A comparison that takes a revision cut short for the revision.
IsPrefix(a, b) == Len(a) <= Len(b) /\ a = SubSeq(b, 1, Len(a))

\* event.Application.Status.Sync.Revision == waitForRevision.
RevisionReady(revision, waitForRevision) == revision = waitForRevision

\* case event := <-revChan.
ArgoEvent(revision) ==
    /\ argo.pc = "watch"
    /\ argo.events < MaxEvents
    /\ LET a == [argo EXCEPT !.events = @ + 1, !.last = revision]
       IN argo' = IF RevisionReady(revision, argo.target)
                    THEN [a EXCEPT !.ready = TRUE, !.pc = "sync",
                                   !.steps = Append(@, "wait")]
                    ELSE a
    /\ UNCHANGED <<req, mutex, session, upstream, eng, front>>

\* case <-ctx.Done(): return ctx.Err().
ArgoWatchDone ==
    /\ argo.pc = "watch"
    /\ argo.ctxDone
    /\ argo' = ArgoReturn(argo, "context deadline exceeded", FALSE)
    /\ UNCHANGED <<req, mutex, session, upstream, eng, front>>

\* A Sync whose error is handed to backoff.Retry as permanent.
ArgoSyncCallPermanent(ok) ==
    /\ argo.pc = "sync"
    /\ argo.ctxDone => ~ok
    /\ LET a == [argo EXCEPT !.syncs = @ + 1, !.steps = Append(@, "sync")]
       IN argo' = IF ok
                    THEN [a EXCEPT !.conn = "closed", !.err = "", !.pc = "done"]
                    ELSE ArgoReturn(a, "synchronizing application failed",
                                    TRUE)
    /\ UNCHANGED <<req, mutex, session, upstream, eng, front>>

\* appClient.Sync.
ArgoSyncCall(ok) ==
    /\ argo.pc = "sync"
    /\ argo.ctxDone => ~ok
    /\ LET a == [argo EXCEPT !.syncs = @ + 1, !.steps = Append(@, "sync")]
       IN argo' = IF ok
                    THEN [a EXCEPT !.conn = "closed", !.err = "", !.pc = "done"]
                    ELSE ArgoReturn(a, "synchronizing application failed",
                                    FALSE)
    /\ UNCHANGED <<req, mutex, session, upstream, eng, front>>

\* A backoff.Retry that was not given the context: it retries after the
\* deadline as before it.
ArgoBackoffNoContext ==
    /\ argo.pc = "backoff"
    /\ argo.attempts < MaxAttempts
    /\ argo' = [argo EXCEPT !.attempts = @ + 1, !.steps = <<>>,
                            !.authed = FALSE, !.ready = FALSE,
                            !.events = 0, !.last = <<>>, !.pc = "connect"]
    /\ UNCHANGED <<req, mutex, session, upstream, eng, front>>

\* backoff.Retry after an error that is not permanent: it gives up when the
\* context is done, else waits and calls doArgoSync again.
ArgoBackoff ==
    /\ argo.pc = "backoff"
    /\ argo.ctxDone \/ argo.attempts < MaxAttempts
    /\ argo' = IF argo.ctxDone
                 THEN [argo EXCEPT !.err = "context deadline exceeded",
                                   !.pc = "failed"]
                 ELSE [argo EXCEPT !.attempts = @ + 1, !.steps = <<>>,
                                   !.authed = FALSE, !.ready = FALSE,
                                   !.events = 0, !.last = <<>>,
                                   !.pc = "connect"]
    /\ UNCHANGED <<req, mutex, session, upstream, eng, front>>

\* The deadline of the session's context passes.
ArgoTimeout ==
    /\ argo.pc \notin {"idle", "done", "failed"}
    /\ ~argo.ctxDone
    /\ argo' = [argo EXCEPT !.ctxDone = TRUE]
    /\ UNCHANGED <<req, mutex, session, upstream, eng, front>>

NextArgo ==
    \/ \E waitForRevision \in Revisions : ArgoSync(waitForRevision)
    \/ \E ok \in BOOLEAN : ArgoConnect(ok)
    \/ \E result \in GetResults : ArgoGet(result)
    \/ \E revision \in Revisions : ArgoEvent(revision)
    \/ ArgoWatchDone
    \/ \E ok \in BOOLEAN : ArgoSyncCall(ok)
    \/ ArgoBackoff
    \/ ArgoTimeout

SpecArgo == InitArgo /\ [][NextArgo]_vars

\* The session as it is scheduled: the deadline of the context passes, the
\* calls made with the context return, the select on ctx.Done() is taken
\* and the timer of backoff.Retry fires.
SpecArgoFair ==
    /\ SpecArgo
    /\ WF_vars(ArgoTimeout)
    /\ WF_vars(\E ok \in BOOLEAN : ArgoConnect(ok))
    /\ WF_vars(\E result \in GetResults : ArgoGet(result))
    /\ WF_vars(ArgoWatchDone)
    /\ WF_vars(\E ok \in BOOLEAN : ArgoSyncCall(ok))
    /\ WF_vars(ArgoBackoff)

\* ------------------------------------------- the handlers in front of ServeHTTP
\* The address <<a, b>> is 10.0.a.b. An entry of AllowedIPs is an address
\* with the text after it: "" for a bare address, "/24" or "/32".
Entry(ip, mask) == [ip |-> ip, mask |-> mask]
ClientIPs == {<<1, 1>>, <<1, 2>>, <<2, 1>>}
AllowLists ==
    {{}, {Entry(<<1, 1>>, "")}, {Entry(<<1, 0>>, "/24")},
     {Entry(<<2, 1>>, "/32"), Entry(<<1, 1>>, "")}}
Configs ==
    [SecretKey : {"", "s3cret"}, AllowedIPs : AllowLists]

\* r.RemoteAddr: "ip:port", or an address without a port.
RemoteAddrs ==
    [ip : ClientIPs, port : {"40000"}] \cup {[ip |-> <<1, 1>>, port |-> ""]}
Paths == {"/health", "/metrics", "/", "/hook"}
Keys == {"", "s3cret", "wrong"}

\* ParseCIDRs: a bare address gets the mask /32; net.ParseCIDR keeps the
\* network part of the address.
ParseCIDRs(inputs) ==
    {[ip   |-> IF e.mask = "/24" THEN <<e.ip[1], 0>> ELSE e.ip,
      bits |-> IF e.mask = "" THEN "/32" ELSE e.mask] : e \in inputs}

\* net.IPNet.Contains.
Contains(network, ip) ==
    IF network.bits = "/24" THEN ip[1] = network.ip[1] ELSE ip = network.ip

\* net.SplitHostPort fails on an address without a port.
SplitHostPortFails(addr) == addr.port = ""

\* The test of IPAllowlistHandler: the address decodes and lies in a network.
Allowed(networks, addr) ==
    /\ ~SplitHostPortFails(addr)
    /\ \E network \in networks : Contains(network, addr.ip)

\* The remotes behind the gated server: "infra" holds a manifest with a
\* plain tag for the application image.
FrontUpstream ==
    [n \in RepositoryNames |->
        IF n = "infra"
          THEN Render(<<[name |-> App, style |-> "plain", tag |-> "1.0"],
                        [name |-> Sidecar, style |-> "quoted", tag |-> "2.0"]>>)
          ELSE Quoted1]

InitFront ==
    /\ req = [r \in Handlers |-> Idle]
    /\ mutex = [n \in RepositoryNames |-> 0]
    /\ session = [n \in RepositoryNames |-> NoSession]
    /\ upstream = FrontUpstream
    /\ eng = EngIdle(NoFile, <<>>)
    /\ front \in {FrontIdle(cfg) : cfg \in Configs}
    /\ argo = ArgoIdle

FrontAnswer(code, body, by) ==
    [front EXCEPT !.status = code, !.body = body, !.to = by, !.pc = "done"]

\* Server.Handler receives a request: the allow list wraps the mux only
\* when AllowedIPs is not empty.
Accept(method, path, addr, key) ==
    /\ front.pc = "listen"
    /\ front' = [front EXCEPT !.Method = method, !.Path = path,
                              !.RemoteAddr = addr, !.Key = key,
                              !.pc = IF front.cfg.AllowedIPs # {}
                                       THEN "IPAllowlistHandler" ELSE "mux"]
    /\ UNCHANGED <<req, mutex, session, upstream, eng, argo>>

IPAllowlistHandler ==
    /\ front.pc = "IPAllowlistHandler"
    /\ front' = IF Allowed(ParseCIDRs(front.cfg.AllowedIPs), front.RemoteAddr)
                  THEN [front EXCEPT !.pc = "mux"]
                  ELSE FrontAnswer(403, "", "IPAllowlistHandler")
    /\ UNCHANGED <<req, mutex, session, upstream, eng, argo>>

\* A mux that registers /health behind the handler of "/".
ServeMuxHealthBehindKey ==
    /\ front.pc = "mux"
    /\ front' = IF front.Path = "/metrics"
                  THEN FrontAnswer(200, "metrics", "promhttp")
                  ELSE [front EXCEPT !.pc = IF front.cfg.SecretKey # ""
                                             THEN "SecretKeyHandler"
                                             ELSE "TimeoutHandler"]
    /\ UNCHANGED <<req, mutex, session, upstream, eng, argo>>

\* http.ServeMux: /metrics and /health match exactly, "/" takes the rest;
\* the handler of "/" is wrapped in SecretKeyHandler when a key is set.
ServeMux ==
    /\ front.pc = "mux"
    /\ front' = CASE front.Path = "/metrics" ->
                       FrontAnswer(200, "metrics", "promhttp")
                  [] front.Path = "/health" -> FrontAnswer(200, "OK", "health")
                  [] OTHER -> [front EXCEPT !.pc = IF front.cfg.SecretKey # ""
                                                     THEN "SecretKeyHandler"
                                                     ELSE "TimeoutHandler"]
    /\ UNCHANGED <<req, mutex, session, upstream, eng, argo>>

\* A key check that lets every request through.
SecretKeyHandlerOpen ==
    /\ front.pc = "SecretKeyHandler"
    /\ front' = [front EXCEPT !.pc = "TimeoutHandler"]
    /\ UNCHANGED <<req, mutex, session, upstream, eng, argo>>

SecretKeyHandler ==
    /\ front.pc = "SecretKeyHandler"
    /\ front' = IF front.Key # front.cfg.SecretKey
                  THEN FrontAnswer(403, "", "SecretKeyHandler")
                  ELSE [front EXCEPT !.pc = "TimeoutHandler"]
    /\ UNCHANGED <<req, mutex, session, upstream, eng, argo>>

\* http.TimeoutHandler hands the request to WebhookServer.ServeHTTP.
TimeoutHandler ==
    /\ front.pc = "TimeoutHandler"
    /\ front' = [front EXCEPT !.to = "ServeHTTP", !.pc = "ServeHTTP"]
    /\ UNCHANGED <<req, mutex, session, upstream, eng, argo>>

\* The bodies sent with the requests that come through the gates.
GatedRequests ==
    {Request("GET", "ok", NoPayload),
     Request("POST", "ok", Payload("api", <<"2.0">>, "alice"))}

\* WebhookServer.ServeHTTP is entered with the request the gates let through;
\* its further steps are those of the handler goroutine 1.
ServeHTTP(in) ==
    /\ front.pc = "ServeHTTP"
    /\ in.Method = front.Method
    /\ Dispatch(1, in)

NextFront ==
    \/ \E method \in {"GET", "POST"}, path \in Paths, addr \in RemoteAddrs,
          key \in Keys : Accept(method, path, addr, key)
    \/ IPAllowlistHandler
    \/ ServeMux
    \/ SecretKeyHandler
    \/ TimeoutHandler
    \/ \E in \in GatedRequests : ServeHTTP(in)
    \/ Lock(1)
    \/ \E ok \in BOOLEAN : Fetch(1, ok)
    \/ \E wtOk \in BOOLEAN, commitOk \in BOOLEAN : ApplyStep(1, wtOk, commitOk)
    \/ \E ok \in BOOLEAN : Push(1, ok)
    \/ Deferred(1)
    \/ Cancel(1)

SpecFront == InitFront /\ [][NextFront]_vars

\* =================================================================== claims
\* The goroutine r is between Mutex.Lock and the deferred Mutex.Unlock.
Holding(r) == "Unlock" \in Range(req[r].defers)

\* C1: of the requests that target one repository, at most one at a time is
\* between acquiring and releasing the repository's lock: Fetch, Apply and
\* Push are only taken by the goroutine that holds the mutex, and no two
\* goroutines hold the mutex of the same repository.
C1_MutualExclusion ==
    /\ \A r \in Handlers :
         /\ req[r].pc \in {"fetch", "apply", "push"} => Holding(r)
         /\ Holding(r) => mutex[req[r].repo] = r
    /\ \A r1, r2 \in Handlers :
         (r1 # r2 /\ Holding(r1) /\ Holding(r2)) => req[r1].repo # req[r2].repo

\* One request is about to push while another waits for the same lock.
C1_Witness ==
    \E r1, r2 \in Handlers :
        /\ r1 # r2
        /\ req[r1].pc = "push"
        /\ req[r2].pc = "lock"
        /\ req[r1].repo = req[r2].repo

\* Every declared image of the manifest that one of the deployment's patterns
\* matches carries the tag.
Covered(d, file, tag) ==
    /\ Unmarshal(file).ok
    /\ \A i \in 1..Len(Unmarshal(file).images) :
         matchImage(d.Images, Unmarshal(file).images[i].name)
            => Unmarshal(file).images[i].tag = tag

\* C2: a finished request either pushed one commit in which every declared
\* image covered by the deployment's patterns carries the requested tag and
\* was answered 200, or pushed nothing and was not answered 200.
C2_AllOrNothing ==
    \A r \in Handlers :
        (req[r].pc = "done" /\ req[r].in.Method = "POST") =>
            \/ /\ req[r].status = 200
               /\ req[r].pushed
               /\ req[r].commit # NoCommit
               /\ Covered(deployments[req[r].in.payload.Deployment],
                          req[r].commit.file, req[r].in.payload.TagName)
            \/ /\ req[r].status # 200
               /\ ~req[r].pushed

\* The manifest text at the end of Apply's loop over the declared images.
EngLoopText ==
    applyLoop(eng.images, eng.body, eng.newTag, Unmarshal(eng.body)).body

\* Some declared image that a pattern matches has a tag other than the
\* requested one.
EngSomeTagDiffers ==
    \E i \in 1..Len(Unmarshal(eng.body).images) :
        /\ matchImage(eng.images, Unmarshal(eng.body).images[i].name)
        /\ Unmarshal(eng.body).images[i].tag \notin {NoTag, eng.newTag}

\* C3: when Apply ends without failure, it signals "no modification" if and
\* only if the text after the loop is identical to the original; and when
\* the tag of some matching image differs from the requested tag, the new
\* text is written, staged and committed.
C3_NoModIffIdentical ==
    (eng.op = "apply" /\ eng.first.outcome \in {"nomod", "commit"}) =>
        /\ eng.first.outcome = "nomod" <=> EngLoopText = eng.body
        /\ EngSomeTagDiffers =>
             /\ eng.first.outcome = "commit"
             /\ eng.first.staged
             /\ eng.first.file = EngLoopText
             /\ eng.first.commit.file = EngLoopText

\* The declarations of image name in the manifest body, as YAML reads it.
Declared(body, name) ==
    IF Unmarshal(body).ok
    THEN {i \in 1..Len(Unmarshal(body).images) :
            Unmarshal(body).images[i].name = name}
    ELSE {}

\* body with the span [ts, te) of entry e replaced by tag.
TagReplaced(body, e, tag) ==
    Slice(body, 0, e.ts) \o tag \o Slice(body, e.te, Len(body))

\* C4: in a manifest that declares the image exactly once, with a tag,
\* changeTag returns the original text with the span of that tag's value
\* replaced by the new tag, every other token unchanged and in order.
C4_OnlyTagSpanChanges ==
    (/\ eng.op = "changeTag"
     /\ Cardinality(Declared(eng.body, eng.name)) = 1
     /\ \A i \in Declared(eng.body, eng.name) :
            Unmarshal(eng.body).images[i].tag # NoTag) =>
        /\ eng.out.err = ""
        /\ \A i \in Declared(eng.body, eng.name) :
             eng.out.body =
               TagReplaced(eng.body, Unmarshal(eng.body).images[i], eng.newTag)

\* C5: a POST whose body has an unknown field or a duplicate key is answered
\* 400 before any deployment lookup, lock or repository I/O.
C5_StrictDecode400 ==
    \A r \in Handlers :
        (/\ req[r].pc # "idle"
         /\ req[r].in.Method = "POST"
         /\ req[r].in.Body \in {"unknown field", "duplicate key"}) =>
            /\ req[r].status = 400
            /\ req[r].repo = ""
            /\ req[r].fetches = 0

\* C6: once a request that fetched a repository has finished and no other
\* request holds the repository, the repository's object store, filesystem
\* and repository handle are all cleared.
C6_SessionCleared ==
    \A r \in Handlers :
        (/\ req[r].pc = "done"
         /\ req[r].fetches > 0
         /\ mutex[req[r].repo] = 0) =>
            session[req[r].repo] = NoSession

\* The patterns without '*' that match no declared image name.
RequiredUnmatched(images, body) ==
    {p \in {q \in Range(images) : "*" \notin Range(q)} :
        \A i \in 1..Len(Unmarshal(body).images) :
            ~fnmatch(p, Unmarshal(body).images[i].name)}

MissingImages == "kustomization file does not contain image(s)"
ChangeTagErrors ==
    {"could not find image definition", "found more than one image definition"}

\* Apply ran on a manifest that it could open and decode.
EngApplied ==
    /\ eng.op = "apply"
    /\ eng.body # NoFile
    /\ Unmarshal(eng.body).ok

\* C7 as stated: Apply fails naming every unmatched pattern exactly when
\* some pattern without '*' matches no declared image name.
C7_FailsNamingUnmatched ==
    EngApplied =>
        (RequiredUnmatched(eng.images, eng.body) # {}
           <=> /\ eng.first.outcome = "error"
               /\ eng.first.err = MissingImages
               /\ eng.first.unmatched = RequiredUnmatched(eng.images, eng.body))

\* C7: when some pattern without '*' matches no declared image name, Apply
\* fails, the handler answers 500 and no commit is made; the failure names
\* every unmatched pattern unless the tag change of a matched image failed
\* first.  The failure for missing images occurs in no other case, so a
\* pattern with '*' that matches nothing never causes it.
C7_RequiredPatterns ==
    EngApplied =>
        /\ RequiredUnmatched(eng.images, eng.body) # {} =>
             /\ eng.first.outcome = "error"
             /\ applyStatus(eng.first.outcome) = 500
             /\ eng.first.commit = NoCommit
             /\ eng.first.file = eng.body
             /\ \/ /\ eng.first.err = MissingImages
                   /\ eng.first.unmatched = RequiredUnmatched(eng.images, eng.body)
                \/ eng.first.err \in ChangeTagErrors
        /\ eng.first.err = MissingImages =>
             /\ RequiredUnmatched(eng.images, eng.body) # {}
             /\ eng.first.unmatched = RequiredUnmatched(eng.images, eng.body)

\* Patterns [app, sidecar] applied to a manifest that declares only app.
C7_Witness ==
    /\ eng.op = "apply"
    /\ eng.body = Quoted1
    /\ eng.images = <<App, Sidecar>>
    /\ eng.first.outcome = "error"
    /\ eng.first.unmatched = {Sidecar}

\* Some image name that a pattern matches is declared in two blocks.
EngDuplicate ==
    \E i, j \in 1..Len(Unmarshal(eng.body).images) :
        /\ i # j
        /\ Unmarshal(eng.body).images[i].name = Unmarshal(eng.body).images[j].name
        /\ matchImage(eng.images, Unmarshal(eng.body).images[i].name)

\* C8: when the manifest has two declaration blocks for an image name that a
\* pattern matches, Apply fails, and nothing is written or committed.
C8_DuplicateFails ==
    (EngApplied /\ EngDuplicate) =>
        /\ eng.first.outcome = "error"
        /\ eng.first.file = eng.body
        /\ ~eng.first.staged
        /\ eng.first.commit = NoCommit

\* C9: after a first Apply that succeeded, Apply of the same tag on the
\* resulting manifest gives "no modification", which the handler answers 304.
C9_Idempotent ==
    eng.op = "again" =>
        /\ eng.second.outcome = "nomod"
        /\ applyStatus(eng.second.outcome) = 304

\* C10: a request is answered 304 exactly when its Apply changed nothing;
\* such a request creates no commit and never calls Push; a request whose
\* Apply failed for another reason is answered 500.
C10_NotModified ==
    \A r \in Handlers :
        /\ req[r].status = 304 <=> req[r].apply = "nomod"
        /\ req[r].apply = "nomod" =>
             /\ req[r].commit = NoCommit
             /\ req[r].pushes = 0
             /\ ~req[r].pushed
             /\ req[r].pc \in {"return", "done"}
             /\ mutex[req[r].repo] = r =>
                  session[req[r].repo].repository.ahead = NoCommit
        /\ req[r].apply = "error" => req[r].status = 500

\* A request whose Apply changed nothing has been answered.
C10_Witness ==
    \E r \in Handlers :
        /\ req[r].pc = "done"
        /\ req[r].apply = "nomod"
        /\ req[r].status = 304
        /\ req[r].fetches = 1

\* The inputs obtained from pattern by replacing each '*' with an arbitrary,
\* possibly empty, text, every other token being literal.
RECURSIVE Glob(_, _)
Glob(pattern, input) ==
    IF pattern = <<>> THEN input = <<>>
    ELSE IF Head(pattern) = "*"
      THEN \E k \in 0..Len(input) :
              Glob(Tail(pattern), SubSeq(input, k + 1, Len(input)))
    ELSE /\ input # <<>>
         /\ Head(input) = Head(pattern)
         /\ Glob(Tail(pattern), Tail(input))

\* C11: fnmatch is a full-string match: a pattern without '*' matches only
\* the identical text, and a pattern with '*' matches exactly the inputs
\* obtained by replacing each '*' with an arbitrary, possibly empty, text.
C11_FullStringGlob ==
    eng.op = "fnmatch" => (eng.matched <=> Glob(eng.images[1], eng.name))

\* C12: requests on different repositories never wait on each other: a
\* request that waits for a repository's lock can acquire it whenever no
\* request on that same repository holds it, whatever the requests on other
\* repositories are doing; and a held lock belongs to a request on that
\* repository.
C12_IndependentRepositories ==
    /\ \A r \in Handlers :
         (/\ req[r].pc = "lock"
          /\ \A h \in Handlers \ {r} :
                Holding(h) => req[h].repo # req[r].repo) => ENABLED Lock(r)
    /\ \A n \in RepositoryNames :
         mutex[n] # 0 => (Holding(mutex[n]) /\ req[mutex[n]].repo = n)

\* Two requests on different repositories are both past their Fetch, each
\* holding its own lock.
C12_Witness ==
    \E r1, r2 \in Handlers :
        /\ req[r1].repo = "infra" /\ req[r1].pc = "push"
        /\ req[r2].repo = "tools" /\ req[r2].pc \in {"apply", "push"}
        /\ mutex["infra"] = r1 /\ mutex["tools"] = r2

\* The handler r has made no call to Fetch, Worktree, Apply or Push.
NoRepositoryIO(q) ==
    /\ q.fetches = 0
    /\ q.pushes = 0
    /\ q.apply = "none"
    /\ ~q.fetched
    /\ q.commit = NoCommit

\* C13: a request whose context has ended by the time it acquires the lock
\* returns without calling Fetch, Worktree, Apply or Push: its next step
\* after the acquisition is the deferred Unlock, which frees the mutex.
C13_DeadlineShortCircuit ==
    [][\A r \in Handlers :
         /\ (req[r].pc = "lock" /\ req[r].ctxErr /\ req'[r] # req[r]) =>
               /\ req'[r].pc = "return"
               /\ req'[r].defers = <<"Unlock">>
               /\ mutex'[req[r].repo] = r
               /\ NoRepositoryIO(req'[r])
               /\ session' = session
         /\ (/\ req[r].pc = "return"
             /\ req[r].defers = <<"Unlock">>
             /\ req[r].fetches = 0
             /\ req'[r] # req[r]) =>
               /\ req'[r].pc = "done"
               /\ mutex[req[r].repo] = r
               /\ mutex'[req[r].repo] = 0
               /\ NoRepositoryIO(req'[r])
               /\ session' = session]_vars

\* A request cancelled while it waited for the lock has finished.
C13_Witness ==
    \E r \in Handlers :
        /\ req[r].pc = "done"
        /\ req[r].ctxErr
        /\ req[r].repo # ""
        /\ NoRepositoryIO(req[r])
        /\ mutex[req[r].repo] # r

\* The deferred Discard calls a handler still has to run.
PendingDiscards(q) == Len(SelectSeq(q.defers, LAMBDA d : d = "Discard"))

\* C14: a handler calls Fetch at most once, and from the moment Fetch has
\* returned, one Discard is either pending among the deferred calls or
\* has run; a finished handler has run as many Discards as Fetches.
C14_FetchThenDiscard ==
    \A r \in Handlers :
        /\ req[r].fetches <= 1
        /\ req[r].discards <= req[r].fetches
        /\ req[r].pc \in {"apply", "push", "return", "done"} =>
              req[r].discards + PendingDiscards(req[r]) = req[r].fetches
        /\ req[r].pc = "done" =>
              /\ req[r].defers = <<>>
              /\ req[r].discards = req[r].fetches

\* Two exits after Fetch have been taken: one handler finished after its
\* Fetch failed, another finished after its Push.
C14_Witness ==
    \E r1, r2 \in Handlers :
        /\ req[r1].pc = "done" /\ req[r1].fetches = 1 /\ ~req[r1].fetched
        /\ req[r1].discards = 1 /\ req[r1].status = 500
        /\ req[r2].pc = "done" /\ req[r2].fetches = 1 /\ req[r2].pushes = 1
        /\ req[r2].discards = 1

\* C15: the lock is released on every exit path: a finished handler holds
\* no mutex, every handler that holds a mutex comes to release it, and
\* every handler waiting for a mutex comes to acquire it.
C15_LockAlwaysReleased ==
    /\ [](\A r \in Handlers : req[r].pc = "done" =>
             \A n \in RepositoryNames : mutex[n] # r)
    /\ \A r \in Handlers, n \in RepositoryNames :
         (mutex[n] = r) ~> (mutex[n] # r /\ req[r].pc = "done")
    /\ \A r \in Handlers :
         (req[r].pc = "lock") ~>
             (\E n \in RepositoryNames : req[r].repo = n /\ mutex[n] = r)

\* One handler has been through the critical section of a repository and has
\* finished; the other handler, of the same repository, now holds the mutex.
C15_Witness ==
    \E r1, r2 \in Handlers :
        /\ r1 # r2
        /\ req[r1].pc = "done" /\ req[r1].fetches = 1
        /\ req[r2].repo = req[r1].repo
        /\ \E n \in RepositoryNames : req[r2].repo = n /\ mutex[n] = r2

\* The white space characters a tag may be written with.
Whitespace == {SP, TAB, LF}

\* The payload has an empty field or white space in its tag.
Malformed(p) ==
    \/ p.Deployment = ""
    \/ p.TagName = <<>>
    \/ p.AuthorizedBy = ""
    \/ Range(p.TagName) \cap Whitespace # {}

\* C16: a decoded request with an empty deployment, tag_name or authorized_by
\* or with any white space character in its tag is answered 400 with the
\* validation message, without deployment lookup, lock or repository I/O;
\* a request that got past validation has three non-empty fields and a tag
\* free of white space.
C16_ValidationRejects ==
    \A r \in Handlers :
        (req[r].pc # "idle" /\ req[r].in.Method = "POST"
                            /\ req[r].in.Body = "ok") =>
            IF Malformed(req[r].in.payload)
              THEN /\ req[r].status = 400
                   /\ req[r].text = Validate(req[r].in.payload)
                   /\ req[r].text # ""
                   /\ req[r].repo = ""
                   /\ NoRepositoryIO(req[r])
              ELSE req[r].status # 400

\* C17: a valid request that names an unknown deployment is answered 404,
\* and a valid request whose deployment names a repository that is not
\* configured is answered 500; neither acquires a lock nor calls Fetch,
\* Apply or Push.
C17_UnknownTargets ==
    \A r \in Handlers :
        LET p == req[r].in.payload
            refused(code) ==
                /\ req[r].pc = "done"
                /\ req[r].status = code
                /\ req[r].repo = ""
                /\ req[r].defers = <<>>
                /\ NoRepositoryIO(req[r])
                /\ \A n \in RepositoryNames : mutex[n] # r
        IN (/\ req[r].pc # "idle"
            /\ req[r].in.Method = "POST"
            /\ req[r].in.Body = "ok"
            /\ Validate(p) = "") =>
               /\ p.Deployment \notin DOMAIN deployments => refused(404)
               /\ (/\ p.Deployment \in DOMAIN deployments
                   /\ deployments[p.Deployment].RepositoryName
                          \notin RepositoryNames) => refused(500)

\* One handler has answered a request for an unknown deployment, the other
\* a request for a deployment whose repository is not configured.
C17_Witness ==
    \E r1, r2 \in Handlers :
        /\ req[r1].in.payload.Deployment = "nosuch"
        /\ req[r1].in.payload.TagName = <<"2.0">>
        /\ req[r1].status = 404
        /\ req[r2].in.payload.Deployment = "orphan"
        /\ req[r2].status = 500

\* C18: a GET of /health is answered 200 with the body "OK" in every
\* configuration and from every client address.
C18_HealthAlwaysOK ==
    (front.pc = "done" /\ front.Method = "GET" /\ front.Path = "/health") =>
        (front.status = 200 /\ front.body = "OK")

\* C18 as amended: a GET of /health is answered 200 "OK" whatever the secret
\* key, when no allow list is configured or the client's address lies in an
\* allowed network; from any other address it is answered 403 by the allow
\* list, never by the key check.
C18_HealthBehindAllowlist ==
    (front.Method = "GET" /\ front.Path = "/health") =>
        /\ front.pc \notin {"SecretKeyHandler", "TimeoutHandler", "ServeHTTP"}
        /\ front.pc = "done" =>
             IF \/ front.cfg.AllowedIPs = {}
                \/ Allowed(ParseCIDRs(front.cfg.AllowedIPs), front.RemoteAddr)
               THEN front.status = 200 /\ front.body = "OK"
               ELSE /\ front.status = 403
                    /\ front.body = ""
                    /\ front.to = "IPAllowlistHandler"

\* /health answered 200 to an allowed client that sent the wrong key to a
\* server with a secret key and an allow list.
C18_Witness ==
    /\ front.pc = "done"
    /\ front.Method = "GET"
    /\ front.Path = "/health"
    /\ front.cfg.SecretKey # ""
    /\ front.Key # front.cfg.SecretKey
    /\ front.cfg.AllowedIPs # {}
    /\ front.status = 200

\* The steps of one attempt of doArgoSync, in the order of the claim.
AttemptOrder == <<"connect", "authenticate", "wait", "sync">>

\* C19: in every attempt the steps taken are an initial part of connect,
\* authenticate, wait for revision, sync; Sync is issued only in an attempt
\* whose read of the application succeeded and whose last event carried
\* exactly the target revision; events with another revision leave the
\* attempt waiting.
C19_SyncAfterAuthAndRevision ==
    /\ IsPrefix(argo.steps, AttemptOrder)
    /\ argo.syncs <= argo.attempts
    /\ (argo.pc = "sync" \/ "sync" \in Range(argo.steps)) =>
          /\ argo.authed
          /\ argo.ready
          /\ argo.last = argo.target
    /\ argo.ready => (argo.authed /\ argo.last = argo.target)
    /\ (argo.pc = "watch" /\ argo.events > 0) =>
          /\ argo.last # argo.target
          /\ "sync" \notin Range(argo.steps)

\* Sync has been issued in a second attempt, after an event with the revision
\* cut short and then an event with the target revision.
C19_Witness ==
    /\ argo.attempts = 2
    /\ argo.target = <<"4f", "9c">>
    /\ argo.events = 2
    /\ argo.steps = AttemptOrder
    /\ argo.pc = "done"

\* C20: when the read of the application fails with Unauthenticated or
\* PermissionDenied the session fails at once: that step starts no attempt
\* and issues no Sync, and a failed session takes no further step.
C20_AuthFailureIsFinal ==
    [][/\ (/\ argo.pc = "get"
           /\ argo'.pc # "get"
           /\ argo'.err \in {"Unauthenticated", "PermissionDenied"}) =>
             /\ argo'.pc = "failed"
             /\ argo'.attempts = argo.attempts
             /\ argo'.syncs = argo.syncs
       /\ argo.pc = "failed" => argo' = argo]_vars

\* The second attempt of a session has failed with PermissionDenied.
C20_Witness ==
    /\ argo.pc = "failed"
    /\ argo.err = "PermissionDenied"
    /\ argo.attempts = 2
    /\ ~argo.ctxDone

\* C21: every sync session comes to an end in done or failed, whatever
\* errors and events occur; once the deadline has passed no attempt is
\* started, and a session whose deadline passed while it waited for the
\* revision fails.
C21_SessionTerminates ==
    /\ (argo.pc # "idle") ~> (argo.pc \in {"done", "failed"})
    /\ [][argo.ctxDone => argo'.attempts = argo.attempts]_vars
    /\ (argo.pc = "watch" /\ argo.ctxDone) ~> (argo.pc = "failed")

\* The deadline passed while the second attempt waited for the revision,
\* after an event with another revision; the session has failed.
C21_Witness ==
    /\ argo.pc = "failed"
    /\ argo.ctxDone
    /\ argo.attempts = 2
    /\ argo.steps = <<"connect", "authenticate">>
    /\ argo.events > 0
    /\ argo.syncs = 0

\* C22: a request whose push succeeded, for a deployment with an
\* application name, has started a sync session for that application with
\* the request's new commit as target; no other request has started one;
\* the response of a pushed request is 200 "OK" whatever becomes of the
\* session.
C22_SyncEngagedAfterPush ==
    \A r \in Handlers :
        LET d == req[r].in.payload.Deployment
        IN /\ (req[r].pushed /\ deployments[d].ApplicationName # "") =>
                 /\ req[r].sync.applicationName = deployments[d].ApplicationName
                 /\ req[r].sync.waitForRevision = req[r].commit
                 /\ req[r].commit # NoCommit
           /\ (req[r].pushed /\ deployments[d].ApplicationName = "") =>
                 req[r].sync = NoSync
           /\ ~req[r].pushed => req[r].sync = NoSync
           /\ req[r].pushed => (req[r].status = 200 /\ req[r].text = "OK")

\* One request has pushed for a deployment with an application, another has
\* failed in its push for the same deployment.
C22_Witness ==
    \E r1, r2 \in Handlers :
        /\ req[r1].pushed
        /\ req[r1].sync.applicationName = "web-app"
        /\ req[r2].in.payload.Deployment = "web"
        /\ req[r2].pushes = 1
        /\ ~req[r2].pushed
        /\ req[r2].pc = "done"

\* C23: a request calls Push at most once; a request whose push failed is
\* answered 500 and is on its way out, with no second push.
C23_PushAtMostOnce ==
    \A r \in Handlers :
        /\ req[r].pushes <= 1
        /\ req[r].pc = "push" => req[r].pushes = 0
        /\ (req[r].pushes = 1 /\ ~req[r].pushed) =>
              /\ req[r].status = 500
              /\ req[r].text = "Internal server error"
              /\ req[r].pc \in {"return", "done"}

\* A request has finished after its one push failed.
C23_Witness ==
    \E r \in Handlers :
        /\ req[r].pc = "done"
        /\ req[r].pushes = 1
        /\ ~req[r].pushed
        /\ ~req[r].ctxErr
        /\ req[r].status = 500

\* The step at which the request of handler state q failed, "" if it has
\* not failed at one of the steps decode, fetch, worktree, apply, push.
FailedAt(q) ==
    CASE q.status = 0 -> ""
      [] q.in.Method = "POST" /\ q.in.Body \notin {"ok", "unreadable"} -> "decode"
      [] q.fetches = 1 /\ ~q.fetched -> "fetch"
      [] q.fetched /\ q.apply = "none" -> "worktree"
      [] q.apply = "error" -> "apply"
      [] q.pushes = 1 /\ ~q.pushed -> "push"
      [] OTHER -> ""

\* The bodies that say nothing about the request or the cause.
GenericBodies ==
    {"Method not allowed", "Failed to read payload", "Failed to decode payload",
     "Deployment not found", "Internal server error", "No changes made", "OK"}

\* C24: two requests that failed at the same step got the same status and
\* the same body, whatever made the step fail; every answer other than a
\* 400 has one of the fixed bodies.
C24_FailureBodyIndependent ==
    /\ \A r1, r2 \in Handlers :
          (FailedAt(req[r1]) # "" /\ FailedAt(req[r1]) = FailedAt(req[r2])) =>
              /\ req[r1].status = req[r2].status
              /\ req[r1].text = req[r2].text
    /\ \A r \in Handlers :
          req[r].status \notin {0, 400} => req[r].text \in GenericBodies

\* Two requests failed in Apply and have been answered, one on a manifest
\* that does not decode, the other on a manifest that does.
C24_Witness ==
    \E r1, r2 \in Handlers :
        /\ FailedAt(req[r1]) = "apply" /\ FailedAt(req[r2]) = "apply"
        /\ req[r1].base = Garbage
        /\ req[r2].base \notin {Garbage, NoFile}
        /\ req[r1].pc = "done" /\ req[r2].pc = "done"

\* C25: when the manifest declares the named image and none of its
\* declaration blocks has a newTag, changeTag fails: it returns an error
\* and no text in which the newTag of another image is rewritten.
C25_OwnBlockOnly ==
    (/\ eng.op = "changeTag"
     /\ Declared(eng.body, eng.name) # {}
     /\ \A i \in Declared(eng.body, eng.name) :
            Unmarshal(eng.body).images[i].tag = NoTag) =>
        /\ eng.out.err # ""
        /\ eng.out.body \notin
             {TagReplaced(eng.body, Unmarshal(eng.body).images[j], eng.newTag) :
                j \in {k \in 1..Len(Unmarshal(eng.body).images) :
                         Unmarshal(eng.body).images[k].tag # NoTag}}

\* C26: a Sync that fails leaves the session waiting in the back-off; while
\* the deadline has not passed the back-off leads to a new attempt, which
\* starts from the beginning: nothing connected, nothing read, no event
\* seen; after a Sync that succeeded the session takes no further step.
C26_RetryAfterSyncError ==
    /\ [][/\ (argo.pc = "sync" /\ argo'.pc \notin {"sync", "done"}) =>
                /\ argo'.pc = "backoff"
                /\ argo'.err = "synchronizing application failed"
                /\ argo'.attempts = argo.attempts
          /\ argo'.attempts # argo.attempts =>
                /\ argo'.attempts = argo.attempts + 1
                /\ argo.pc \in {"idle", "backoff"}
                /\ ~argo.ctxDone
                /\ argo'.pc = "connect"
                /\ argo'.conn = "closed"
                /\ argo'.steps = <<>>
                /\ ~argo'.authed
                /\ ~argo'.ready
                /\ argo'.events = 0
          /\ argo.pc = "done" => argo' = argo]_vars
    /\ \A k \in 1..(MaxAttempts - 1) :
          (/\ argo.pc = "backoff"
           /\ argo.err = "synchronizing application failed"
           /\ argo.attempts = k
           /\ ~argo.ctxDone) ~> (argo.attempts = k + 1 \/ argo.ctxDone)

\* The Sync of the first attempt failed; the second attempt ran the whole
\* sequence again and its Sync succeeded.
C26_Witness ==
    /\ argo.pc = "done"
    /\ argo.attempts = 2
    /\ argo.syncs = 2
    /\ argo.steps = AttemptOrder
    /\ ~argo.ctxDone

\* C27: a request calls Push only when its own Fetch succeeded, its own
\* Apply returned a commit, that commit is what the session is ahead by,
\* and it holds the repository's mutex; a 200 is written only by a request
\* whose Push succeeded.
C27_PushAfterFetchAndApply ==
    [][\A r \in Handlers :
         /\ req'[r].pushes # req[r].pushes =>
               /\ req[r].pc = "push"
               /\ req[r].fetches = 1 /\ req[r].fetched
               /\ req[r].apply = "commit"
               /\ req[r].commit # NoCommit
               /\ mutex[req[r].repo] = r
               /\ mutex'[req[r].repo] = r
               /\ session[req[r].repo].repository.by = r
               /\ session[req[r].repo].repository.ahead = req[r].commit
         /\ req'[r].status = 200 =>
               /\ req'[r].pushes = 1
               /\ req'[r].pushed]_vars

\* A request has been answered 200 after its push, and has not yet
\* released the mutex.
C27_Witness ==
    \E r \in Handlers :
        /\ req[r].status = 200
        /\ req[r].pushed
        /\ req[r].apply = "commit"
        /\ req[r].pc = "return"
        /\ mutex[req[r].repo] = r

\* C28: the object store and the filesystem of a repository are set only
\* while a request holds the repository's mutex, and then they are those of
\* the holder's own Fetch; a request that has acquired the mutex and has
\* not fetched yet finds both empty.
C28_DiscardBeforeUnlock ==
    /\ \A n \in RepositoryNames :
          (session[n].storage # Nil \/ session[n].filesystem # Nil) =>
              /\ mutex[n] \in Handlers
              /\ session[n].storage # Nil /\ session[n].filesystem # Nil
              /\ session[n].storage.by = mutex[n]
              /\ session[n].filesystem.by = mutex[n]
              /\ req[mutex[n]].fetches = 1
              /\ req[mutex[n]].discards = 0
    /\ \A r \in Handlers :
          (req[r].pc = "fetch" \/ (Holding(r) /\ req[r].fetches = 0)) =>
              /\ session[req[r].repo].storage = Nil
              /\ session[req[r].repo].filesystem = Nil

\* A second request of a repository has acquired the mutex after a first
\* request fetched, discarded and released; it has not fetched yet.
C28_Witness ==
    \E r1, r2 \in Handlers :
        /\ req[r1].pc = "done" /\ req[r1].fetched /\ req[r1].discards = 1
        /\ req[r2].pc = "fetch"
        /\ req[r2].repo = req[r1].repo
        /\ \E n \in RepositoryNames : req[r2].repo = n /\ mutex[n] = r2

\* C29: when Apply returns an error or "no modification" on account of the
\* manifest, the worktree is as it was: the manifest file has its old text,
\* nothing is staged and there is no commit. (In these runs the commit
\* itself never fails, so every error is one of the manifest.)
C29_WorktreeUnchangedOnFailure ==
    /\ (eng.op \in {"apply", "again"}
          /\ eng.first.outcome \in {"error", "nomod"}) =>
           /\ eng.first.file = eng.body
           /\ ~eng.first.staged
           /\ eng.first.commit = NoCommit
    /\ (eng.op = "again" /\ eng.second.outcome \in {"error", "nomod"}) =>
           /\ eng.second.file = eng.first.file
           /\ ~eng.second.staged
           /\ eng.second.commit = NoCommit

\* Apply failed on a manifest that decodes: a required image is missing, or
\* changeTag found no block to rewrite, or more than one.
C29_Witness ==
    /\ EngApplied
    /\ eng.first.outcome = "error"
    /\ eng.first.err \in ChangeTagErrors \cup {MissingImages}
    /\ Len(eng.body) > 0
    /\ eng.first.file = eng.body

\* The gates refuse the request: its address is outside a configured allow
\* list, or it is bound for the handler of "/" with a key other than the
\* configured one.
Rejected ==
    /\ front.pc # "listen"
    /\ \/ /\ front.cfg.AllowedIPs # {}
          /\ ~Allowed(ParseCIDRs(front.cfg.AllowedIPs), front.RemoteAddr)
       \/ /\ front.Path \notin {"/health", "/metrics"}
          /\ front.cfg.SecretKey # ""
          /\ front.Key # front.cfg.SecretKey

\* C30: a request the gates refuse is answered 403 and never enters
\* ServeHTTP: no handler leaves its idle state, no mutex is taken, no
\* repository session is touched and nothing is pushed.
C30_RejectedNeverDispatched ==
    Rejected =>
        /\ front.pc \in {"IPAllowlistHandler", "mux", "SecretKeyHandler", "done"}
        /\ front.pc = "done" => (front.status = 403 /\ front.body = "")
        /\ front.to \in {"none", "IPAllowlistHandler", "SecretKeyHandler"}
        /\ \A r \in Handlers : req[r] = Idle
        /\ \A n \in RepositoryNames :
              /\ mutex[n] = 0
              /\ session[n] = NoSession
              /\ upstream[n] = FrontUpstream[n]

\* A POST to "/" from an allowed address with a wrong key has been answered
\* 403 by the key check.
C30_Witness ==
    /\ Rejected
    /\ front.pc = "done"
    /\ front.Method = "POST"
    /\ front.Path = "/"
    /\ front.cfg.AllowedIPs # {}
    /\ front.to = "SecretKeyHandler"
    /\ front.status = 403

\* The checks of the dispatcher in their order, each with the status it
\* answers when it is the one that fails.
CheckOrder ==
    <<[check |-> "method", status |-> 405],
      [check |-> "decode", status |-> 500],
      [check |-> "validate", status |-> 400],
      [check |-> "deployment", status |-> 404],
      [check |-> "repository", status |-> 500]>>

\* Whether the request fails the named check, taken on its own.
Fails(check, in) ==
    CASE check = "method"     -> in.Method # "POST"
      [] check = "decode"     -> in.Body # "ok"
      [] check = "validate"   -> Validate(in.payload) # ""
      [] check = "deployment" -> in.payload.Deployment \notin DeploymentNames
      [] check = "repository" ->
            /\ in.payload.Deployment \in DeploymentNames
            /\ deployments[in.payload.Deployment].RepositoryName
                   \notin RepositoryNames

\* The places in CheckOrder of the checks the request fails.
Failing(in) == {i \in DOMAIN CheckOrder : Fails(CheckOrder[i].check, in)}

\* The least member of a non-empty set of numbers.
Least(S) == CHOOSE i \in S : \A j \in S : i <= j

\* C31: the dispatcher checks method, body, fields, deployment and
\* repository in this order and answers with the status of the first check
\* that fails, taking no lock and doing no repository I/O; a request that
\* fails none goes on to the lock, and the deadline is looked at only once
\* the lock is held: a handler whose deadline passed while it waited leaves
\* the wait by taking the mutex and then returns without an answer of its
\* own and without Fetch.
C31_FirstFailingCheck ==
    [][/\ \A r \in Handlers :
            LET q == req'[r]
            IN q.pc # "idle" =>
                 IF Failing(q.in) # {}
                   THEN /\ q.status = CheckOrder[Least(Failing(q.in))].status
                        /\ q.pc = "done"
                        /\ q.repo = ""
                        /\ NoRepositoryIO(q)
                        /\ \A n \in RepositoryNames : mutex'[n] # r
                 ELSE /\ q.repo \in RepositoryNames
                      /\ q.pc = "lock" => (q.status = 0 /\ mutex'[q.repo] # r)
       /\ \A r \in Handlers :
            (req[r].pc = "lock" /\ req'[r].pc # "lock") =>
                /\ mutex[req[r].repo] = 0
                /\ mutex'[req[r].repo] = r
                /\ req[r].ctxErr =>
                     /\ req'[r].pc = "return"
                     /\ req'[r].status = 0
                     /\ req'[r].fetches = 0
                /\ ~req[r].ctxErr => req'[r].pc = "fetch"]_vars

\* A GET whose body is no JSON has been answered 405 and a POST with no tag
\* for an unknown deployment has been answered 400, while the mutex of
\* neither repository is held.
C31_Witness ==
    \E r1, r2 \in Handlers :
        /\ req[r1].in = Request("GET", "syntax", NoPayload)
        /\ req[r1].status = 405
        /\ req[r2].in = Request("POST", "ok", Payload("nosuch", NoTagName, "alice"))
        /\ req[r2].status = 400
        /\ \A n \in RepositoryNames : mutex[n] = 0

====
